---- MODULE Spec2Model ----
(***************************************************************************)
(* The HTTP client pipeline of src/src/services/api.ts (class ApiService   *)
(* and the shared apiClient with its three default interceptors).          *)
(*                                                                         *)
(* A call is followed from its entry point (get/post/put/patch/delete)     *)
(* through makeRequest: the request-interceptor chain, fetch with its      *)
(* timeout guard, the HTTP-status branch, the decoding of the body, the    *)
(* response-interceptor chain or the error-interceptor chain, up to the    *)
(* settlement of the promise handed to the caller.  Every await of the     *)
(* code is a step of its own.                                              *)
(***************************************************************************)
EXTENDS Integers, Sequences, FiniteSets, TLC

\* Number of calls that overlap in SpecConcurrent, and number of
\* add*Interceptor calls made by the host application on top of what the
\* client was constructed with.
NCalls == 2
MaxReg == 2

Calls == 1..NCalls

\* Spec follows one call at a time, with every input and every client.
Solo == {1}

VARIABLES
    requestInterceptors,   \* ApiService.requestInterceptors (api.ts:63)
    responseInterceptors,  \* ApiService.responseInterceptors (api.ts:64)
    errorInterceptors,     \* ApiService.errorInterceptors (api.ts:65)
    registered,            \* add*Interceptor calls made by the host so far
    localStorage,          \* the persisted credential store
    location,              \* window.location.href
    consoleErrors,         \* errors written by console.error
    payload,               \* per call: the data the caller passed, if any
    args,                  \* per call: what the caller passed
    pc,                    \* per call: position inside makeRequest
    cfg,                   \* per call: the RequestConfig being built
    idx,                   \* per call: position in the chain being walked
    reqTrace,              \* per call: request interceptors applied so far
    sent,                  \* per call: the requests handed to fetch
    timer,                 \* per call: state of the setTimeout guard
    armedAt,               \* per call: the delay setTimeout was given
    aborted,               \* per call: controller.signal.aborted
    response,              \* per call: the Response fetch resolved with
    val,                   \* per call: decoded payload in the response chain
    err,                   \* per call: the ApiClientError in the error chain
    errTrace,              \* per call: error interceptors applied so far
    outcome,               \* per call: settlement of the returned promise
    log,                   \* per call: order of the observable events
    envValue,              \* import.meta.env.VITE_API_TIMEOUT
    envResult,             \* what reading env.API_TIMEOUT came to
    urlArgs,               \* a path, a per-call baseURL, the client's baseURL
    fullUrl,               \* the URL makeRequest resolved them to
    hook,                  \* useApi: mountedRef, state, options, callbacks
    exec,                  \* useApi: per execute call, where it stands
    pager                  \* usePaginatedApi: state and memoized callbacks

vars == <<requestInterceptors, responseInterceptors, errorInterceptors,
          registered, localStorage, location, consoleErrors, payload, args,
          pc, cfg, idx, reqTrace, sent, timer, armedAt, aborted, response, val,
          err, errTrace, outcome, log, envValue, envResult, urlArgs, fullUrl,
          hook, exec, pager>>

envVars == <<envValue, envResult>>
urlVars == <<urlArgs, fullUrl>>
pureVars == <<envVars, urlVars>>
hookVars == <<hook, exec, pager>>
clientVars == <<requestInterceptors, responseInterceptors, errorInterceptors,
                registered>>
browserVars == <<localStorage, location, consoleErrors>>

----------------------------------------------------------------------------
(* Values *)

\* The field of a JavaScript object that is not there (undefined).
Absent == "<absent>"

\* env.ENABLE_DEBUG, with no VITE_ENABLE_DEBUG set.
ENABLE_DEBUG == TRUE

\* The pagination object of a page of results.  page 0 stands for a
\* pagination that is not there (null or undefined).
NoPagination ==
    [page |-> 0, totalPages |-> 0, hasNext |-> FALSE, hasPrev |-> FALSE]

\* JSON values as the pipeline looks at them: the type, and for an object
\* the fields the code reads.  data = 0 says the object has no `data` key,
\* another number names the value stored under it (see Inner).  tags counts
\* the host's response interceptors that rewrote the value.
Json(t, data, message, code, status) ==
    [t |-> t, data |-> data, message |-> message, code |-> code,
     status |-> status, details |-> Absent, pagination |-> NoPagination,
     tags |-> 0]

JNull == Json("null", 0, Absent, Absent, 0)
JNumber == Json("number", 0, Absent, Absent, 0)
JArray == Json("array", 0, Absent, Absent, 0)
JEmptyObject == Json("object", 0, Absent, Absent, 0)
JEnvelope(d) == Json("object", d, "Success", Absent, 0)
JErrorBody ==
    [Json("object", 0, "Invalid credentials", "AUTH_FAILED", 400)
        EXCEPT !.details = "{\"field\":\"email\"}"]
JMessageOnly == Json("object", 0, "Oops", Absent, 0)
NoValue == Json("none", 0, Absent, Absent, 0)

\* The values an envelope's `data` key holds in this model: a list of items,
\* null, and an object that itself has a `data` key.
TotalPages == 2

\* The pagination the server sends with page p.
Pagination(p) ==
    [page |-> p, totalPages |-> TotalPages, hasNext |-> p < TotalPages,
     hasPrev |-> p > 1]

\* { data: [...], pagination: {...} } for page p
PageData(p) ==
    [Json("object", 1, Absent, Absent, 0) EXCEPT !.pagination = Pagination(p)]

\* The same inside the envelope ApiResponse: { data: { data, pagination },
\* message, success }.  A negative data names the page it holds.
WrappedPage(p) == Json("object", -p, "Success", Absent, 0)

Inner(d) ==
    CASE d = 1 -> JArray
      [] d = 2 -> JNull
      [] d < 0 -> PageData(-d)
      [] OTHER -> JEnvelope(1)

InnerIds == {1, 2, 3}

\* A body on the wire: whether response.json() can decode it, and to what.
Body(decodes, v) == [decodes |-> decodes, v |-> v]
Malformed == Body(FALSE, NoValue)
\* A body whose bytes never finish arriving: response.json() stays pending.
Stalled == Body(FALSE, Json("pending", 0, Absent, Absent, 0))

Bodies ==
    {Malformed, Stalled} \cup
    {Body(TRUE, v) : v \in {JNull, JNumber, JArray, JEmptyObject, JErrorBody,
                            JMessageOnly}
                           \cup {JEnvelope(d) : d \in InnerIds}}

Statuses == {200, 401, 500}

\* Response.ok
Ok(status) == status >= 200 /\ status <= 299

NoResponse == [status |-> 0, body |-> Malformed]

\* Thrown values.  status -1 and code Absent stand for a thrown value that
\* has no such fields (any Error that is not an ApiClientError).  details is
\* the optional fourth argument of the constructor of ApiClientError.
ApiClientError(message, status, code) ==
    [name |-> "ApiClientError", message |-> message, status |-> status,
     code |-> code, details |-> Absent]

Thrown(name, message) ==
    [name |-> name, message |-> message, status |-> -1, code |-> Absent,
     details |-> Absent]

NoError ==
    [name |-> "", message |-> "", status |-> -1, code |-> Absent,
     details |-> Absent]

InstanceOfApiClientError(e) == e.name = "ApiClientError"

getErrorMessage(e) == e.message

\* Headers: a mapping from the header names of the model to a value or Absent.
HeaderKeys == {"Content-Type", "Authorization"}
NoHeaders == [h \in HeaderKeys |-> Absent]

\* defaultConfig.headers
DefaultHeaders == [NoHeaders EXCEPT !["Content-Type"] = "application/json"]

Spread_firstWins(a, b) ==
    [h \in HeaderKeys |-> IF a[h] # Absent THEN a[h] ELSE b[h]]

\* { ...a, ...b }
Spread(a, b) == [h \in HeaderKeys |-> IF b[h] # Absent THEN b[h] ELSE a[h]]

CallerHeaders ==
    {NoHeaders,
     [NoHeaders EXCEPT !["Content-Type"] = "text/plain"],
     [NoHeaders EXCEPT !["Authorization"] = "Basic abc"]}

\* The data argument of post, put and patch: not given, an object, or one
\* of 0, false and ''.
Payloads == {Absent, "object", "0", "false", "''"}

\* data ? ... : ...
PayloadTruthy(data) == data = "object"

JSONStringify(data) ==
    CASE data = "object" -> "{\"name\":\"x\"}"
      [] data = "0" -> "0"
      [] data = "false" -> "false"
      [] data = "''" -> "\"\""
      [] OTHER -> Absent

\* The timeout option of a RequestConfig: <<>> when not given, else <<ms>>.
NoTimeout == <<>>
TimeoutOverrides == {NoTimeout, <<0>>, <<5000>>}

NoConfig == [method |-> "", body |-> Absent, headers |-> NoHeaders,
             timeout |-> NoTimeout, marks |-> <<>>]

\* Kinds of interceptor a host registers.  "auth", "unwrap" and "default"
\* are the three the module registers on apiClient; "mark" rewrites what it
\* is given, "throw" raises an Error, "throwApi" raises an ApiClientError of
\* its own, "observe" looks at the error and returns.
RequestKinds == {"auth", "mark", "throw", "throwApi"}
ResponseKinds == {"unwrap", "mark", "throw"}
ErrorKinds == {"default", "observe"}

\* The config a caller has not passed yet.
NoArgs == NoConfig

NoOutcome == [kind |-> "pending", error |-> NoError, value |-> NoValue]

----------------------------------------------------------------------------
(* The interceptors, as functions *)

DefaultRequestInterceptor_noHeader(config, store) == config

\* apiClient.addRequestInterceptor(config => ...); `if (token)` is false
\* for null and for the empty string.
DefaultRequestInterceptor(config, store) ==
    LET token == store["auth_token"] IN
    IF token # Absent /\ token # ""
    THEN [config EXCEPT !.headers =
            Spread(config.headers,
                   [NoHeaders EXCEPT !["Authorization"] = "Bearer " \o token])]
    ELSE config

\* What calling the request interceptor of kind k, registered at place i,
\* does with config: the descriptor it returns, or the value it throws.
RequestInterceptor(k, i, config, store) ==
    CASE k = "auth" ->
            [threw |-> FALSE, error |-> NoError,
             config |-> DefaultRequestInterceptor(config, store)]
      [] k = "mark" ->
            [threw |-> FALSE, error |-> NoError,
             config |-> [config EXCEPT !.marks = Append(@, i)]]
      [] k = "throw" ->
            [threw |-> TRUE, config |-> config,
             error |-> Thrown("Error", "request interceptor failed")]
      [] OTHER ->
            [threw |-> TRUE, config |-> config,
             error |-> ApiClientError("Forbidden", 403, "FORBIDDEN")]

TypeOf(v) == IF v.t = "number" THEN "number" ELSE "object"
Truthy(v) == v.t # "null"
\* 'data' in response
HasData(v) == v.t = "object" /\ v.data # 0

DefaultResponseInterceptor_keepEnvelope(v) == v

\* apiClient.addResponseInterceptor(response => ...)
DefaultResponseInterceptor(v) ==
    IF Truthy(v) /\ TypeOf(v) = "object" /\ HasData(v)
    THEN Inner(v.data)
    ELSE v

ResponseInterceptor(k, v) ==
    CASE k = "unwrap" ->
            [threw |-> FALSE, error |-> NoError,
             value |-> DefaultResponseInterceptor(v)]
      [] k = "mark" ->
            [threw |-> FALSE, error |-> NoError,
             value |-> [v EXCEPT !.tags = @ + 1]]
      [] OTHER ->
            [threw |-> TRUE, value |-> v,
             error |-> Thrown("Error", "response interceptor failed")]

----------------------------------------------------------------------------
(* Text, as the sequence of its characters *)

StartsWith(s, prefix) ==
    Len(s) >= Len(prefix) /\ SubSeq(s, 1, Len(prefix)) = prefix

----------------------------------------------------------------------------
(* Configuration read at process start: getNumberEnvVar *)

MaxEnvLen == 3

\* getNumberEnvVar('VITE_API_TIMEOUT', 10000)
DefaultApiTimeout == 10000

EnvChars == {"0", "7", "x", "-", " "}
IsDigit(ch) == ch \in {"0", "7"}
DigitValue(ch) == IF ch = "7" THEN 7 ELSE 0

EnvTexts == UNION {[1..n -> EnvChars] : n \in 0..MaxEnvLen}

\* import.meta.env[key]: undefined, or a text.
Undefined == [defined |-> FALSE, text |-> <<>>]
EnvValues == {Undefined} \cup {[defined |-> TRUE, text |-> t] : t \in EnvTexts}

RECURSIVE SkipSpaces(_)
SkipSpaces(s) ==
    IF s # <<>> /\ s[1] = " " THEN SkipSpaces(Tail(s)) ELSE s

RECURSIVE LeadingDigits(_)
LeadingDigits(s) ==
    IF s # <<>> /\ IsDigit(s[1])
    THEN <<s[1]>> \o LeadingDigits(Tail(s))
    ELSE <<>>

RECURSIVE DecimalValue(_)
DecimalValue(digits) ==
    IF digits = <<>>
    THEN 0
    ELSE 10 * DecimalValue(SubSeq(digits, 1, Len(digits) - 1))
         + DigitValue(digits[Len(digits)])

\* parseInt(s, 10): leading white space is skipped, a sign is read, then
\* digits up to the first character that is not one; NaN without a digit.
ParseInt(s) ==
    LET t == SkipSpaces(s)
        negative == t # <<>> /\ t[1] = "-"
        digits == LeadingDigits(IF negative THEN Tail(t) ELSE t)
    IN IF digits = <<>>
       THEN [nan |-> TRUE, n |-> 0]
       ELSE [nan |-> FALSE,
             n |-> IF negative THEN -DecimalValue(digits)
                   ELSE DecimalValue(digits)]

NotRead == [read |-> FALSE, threw |-> FALSE, n |-> 0]

getNumberEnvVar(value, defaultValue) ==
    IF ~value.defined
    THEN [read |-> TRUE, threw |-> FALSE, n |-> defaultValue]
    ELSE LET parsed == ParseInt(IF value.text # <<>> THEN value.text
                                ELSE <<"0">>)
         IN IF parsed.nan
            THEN [read |-> TRUE, threw |-> TRUE, n |-> 0]
            ELSE [read |-> TRUE, threw |-> FALSE, n |-> parsed.n]

EnvUnset == envValue = Undefined /\ envResult = NotRead

----------------------------------------------------------------------------
(* URL resolution: buildUrl *)

MaxSlashes == 2

Slashes(n) == [i \in 1..n |-> "/"]

Http == <<"h", "t", "t", "p">>
\* http://h/a and http://o/b
HostApi == Http \o <<":", "/", "/", "h", "/", "a">>
OtherApi == Http \o <<":", "/", "/", "o", "/", "b">>

\* users, preceded by slashes
RelativePaths == {Slashes(n) \o <<"u">> : n \in 0..MaxSlashes}
\* http://x/y and https://x/y
AbsoluteUrls ==
    {Http \o <<":", "/", "/", "x", "/", "y">>,
     Http \o <<"s", ":", "/", "/", "x", "/", "y">>}
\* http-l/r, a relative path, and the empty path
OtherPaths == {Http \o <<"-", "l", "/", "r">>, <<>>}

BaseUrls == {HostApi \o Slashes(n) : n \in 0..MaxSlashes}
\* config.baseURL of a call: not given (the empty text), or a base.
BaseUrlOverrides == {<<>>} \cup {OtherApi \o Slashes(n) : n \in 0..MaxSlashes}

UrlArgs ==
    [url : RelativePaths \cup AbsoluteUrls \cup OtherPaths,
     baseURL : BaseUrlOverrides,
     configBase : BaseUrls]

\* s.replace(/\/$/, '')
ReplaceTrailingSlash(s) ==
    IF s # <<>> /\ s[Len(s)] = "/" THEN SubSeq(s, 1, Len(s) - 1) ELSE s

\* s.replace(/^\//, '')
ReplaceLeadingSlash(s) ==
    IF s # <<>> /\ s[1] = "/" THEN Tail(s) ELSE s

buildUrl_alwaysJoin(url, baseURL, configBase) ==
    LET base == IF baseURL # <<>> THEN baseURL ELSE configBase
    IN ReplaceTrailingSlash(base) \o <<"/">> \o ReplaceLeadingSlash(url)

\* ApiService.buildUrl(url, baseURL), with this.config.baseURL as configBase.
buildUrl(url, baseURL, configBase) ==
    LET base == IF baseURL # <<>> THEN baseURL ELSE configBase
    IN IF StartsWith(url, Http)
       THEN url
       ELSE ReplaceTrailingSlash(base) \o <<"/">> \o ReplaceLeadingSlash(url)

UrlUnset ==
    /\ urlArgs = [url |-> <<>>, baseURL |-> <<>>, configBase |-> HostApi]
    /\ fullUrl = <<>>

----------------------------------------------------------------------------
(* The hooks of src/src/hooks/useApi.ts: values *)

NExec == 2
Execs == 1..NExec

\* What an onSuccess or onError option is: not given, a function that
\* returns, a function that throws.
CallbackKinds == {"none", "returns", "throws"}

\* data and error of useApi: <<>> is null, <<e>> is the result (or the
\* message of the error) of the apiCall of execute call e, and <<0>> is the
\* message of what a callback threw.
Null == <<>>
ResultOf(e) == <<e>>
MessageOf(e) == <<e>>
CallbackMessage == <<0>>

\* useApi after its first render.  state fields hold what the setter of
\* each was last called with; started lists the execute calls in the order
\* they were made.
UseApi(onSuccess, onError) ==
    [mounted |-> TRUE, data |-> Null, error |-> Null, isLoading |-> FALSE,
     onSuccess |-> onSuccess, onError |-> onError,
     onSuccessCalls |-> 0, onErrorCalls |-> 0,
     started |-> <<>>, wasReset |-> FALSE]

\* An execute call: pc is idle, awaiting (apiCall is pending) or done; api
\* is how apiCall settled; ret is how the promise of execute settled;
\* mounted is mountedRef.current as the call read it after the await; nth
\* says that the call was the nth to settle.
NotExecuted == [pc |-> "idle", api |-> "none", ret |-> "pending",
                mounted |-> TRUE, nth |-> 0]

\* usePaginatedApi, not rendered.
NoPager == [rendered |-> FALSE]

HooksUnused ==
    /\ hook = UseApi("none", "none")
    /\ exec = [e \in Execs |-> NotExecuted]
    /\ pager = NoPager

----------------------------------------------------------------------------
(* Construction and registration *)

SignedIn == [k \in {"auth_token", "refresh_token"} |-> "tok"]
SignedOut == [k \in {"auth_token", "refresh_token"} |-> Absent]
\* localStorage.setItem('auth_token', '') has been called.
EmptyToken == [k \in {"auth_token", "refresh_token"} |-> ""]

\* Either a client fresh from `new ApiService()`, or the module's apiClient
\* after its three addXInterceptor calls.
NewApiService ==
    /\ requestInterceptors = <<>>
    /\ responseInterceptors = <<>>
    /\ errorInterceptors = <<>>

TheApiClient ==
    /\ requestInterceptors = <<"auth">>
    /\ responseInterceptors = <<"unwrap">>
    /\ errorInterceptors = <<"default">>

\* No call has been made yet.
InitCalls ==
    /\ payload = [c \in Calls |-> Absent]
    /\ args = [c \in Calls |-> NoArgs]
    /\ pc = [c \in Calls |-> "idle"]
    /\ cfg = [c \in Calls |-> NoConfig]
    /\ idx = [c \in Calls |-> 0]
    /\ reqTrace = [c \in Calls |-> <<>>]
    /\ sent = [c \in Calls |-> <<>>]
    /\ timer = [c \in Calls |-> "none"]
    /\ armedAt = [c \in Calls |-> 0]
    /\ aborted = [c \in Calls |-> FALSE]
    /\ response = [c \in Calls |-> NoResponse]
    /\ val = [c \in Calls |-> NoValue]
    /\ err = [c \in Calls |-> NoError]
    /\ errTrace = [c \in Calls |-> <<>>]
    /\ outcome = [c \in Calls |-> NoOutcome]
    /\ log = [c \in Calls |-> <<>>]

Init ==
    /\ NewApiService \/ TheApiClient
    /\ registered = 0
    /\ localStorage \in {SignedIn, SignedOut, EmptyToken}
    /\ location = "/"
    /\ consoleErrors = 0
    /\ InitCalls
    /\ EnvUnset
    /\ UrlUnset
    /\ HooksUnused

callVars == <<payload, args, pc, cfg, idx, reqTrace, sent, timer, armedAt,
              aborted, response, val, err, errTrace, outcome, log>>

\* Interceptors are registered while the application sets itself up, before
\* it issues its first call.
Setup == registered < MaxReg /\ \A c \in Calls : pc[c] = "idle"

addRequestInterceptor(k) ==
    /\ Setup
    /\ requestInterceptors' = Append(requestInterceptors, k)
    /\ registered' = registered + 1
    /\ UNCHANGED <<responseInterceptors, errorInterceptors, browserVars,
                   callVars, pureVars, hookVars>>

addResponseInterceptor(k) ==
    /\ Setup
    /\ responseInterceptors' = Append(responseInterceptors, k)
    /\ registered' = registered + 1
    /\ UNCHANGED <<requestInterceptors, errorInterceptors, browserVars,
                   callVars, pureVars, hookVars>>

addErrorInterceptor(k) ==
    /\ Setup
    /\ errorInterceptors' = Append(errorInterceptors, k)
    /\ registered' = registered + 1
    /\ UNCHANGED <<requestInterceptors, responseInterceptors, browserVars,
                   callVars, pureVars, hookVars>>

----------------------------------------------------------------------------
(* A call: get/post/put/patch/delete and makeRequest *)

Logged(c, events) == log' = [log EXCEPT ![c] = @ \o events]

\* The promise of the call rejects with e.
Reject(c, e, events) ==
    /\ pc' = [pc EXCEPT ![c] = "done"]
    /\ outcome' = [outcome EXCEPT ![c] =
                     [kind |-> "rejected", error |-> e, value |-> NoValue]]
    /\ Logged(c, events \o <<"rejected">>)

WrapNetworkError_timeoutStatus(e) ==
    ApiClientError(getErrorMessage(e), 408, "NETWORK_ERROR")

WrapNetworkError_timeoutCode(e) ==
    ApiClientError(getErrorMessage(e), 0,
                   IF e.name = "AbortError" THEN "TIMEOUT"
                   ELSE "NETWORK_ERROR")

\* new ApiClientError(getErrorMessage(error), 0, 'NETWORK_ERROR')
WrapNetworkError(e) ==
    ApiClientError(getErrorMessage(e), 0, "NETWORK_ERROR")

\* The catch block of makeRequest, entered with the thrown value e: an
\* ApiClientError is thrown on, anything else is wrapped and handed to
\* applyErrorInterceptors.  "throw" in the log says that something that is
\* not an ApiClientError was thrown, "error" that an ApiClientError was made.
Catch(c, e, events) ==
    IF InstanceOfApiClientError(e)
    THEN /\ Reject(c, e, events)
         /\ UNCHANGED <<err, idx>>
    ELSE /\ err' = [err EXCEPT ![c] = WrapNetworkError(e)]
         /\ idx' = [idx EXCEPT ![c] = 1]
         /\ pc' = [pc EXCEPT ![c] = "error-interceptors"]
         /\ Logged(c, events \o <<"throw", "error">>)
         /\ UNCHANGED outcome

\* makeRequest up to its first await: the headers are merged and
\* applyRequestInterceptors starts.
makeRequest(c, config) ==
    /\ pc[c] = "idle"
    /\ args' = [args EXCEPT ![c] = config]
    /\ cfg' = [cfg EXCEPT ![c] =
                 [config EXCEPT !.headers = Spread(DefaultHeaders, @)]]
    /\ idx' = [idx EXCEPT ![c] = 1]
    /\ pc' = [pc EXCEPT ![c] = "request-interceptors"]
    /\ Logged(c, <<"called">>)
    /\ UNCHANGED <<hookVars, pureVars, clientVars, browserVars, reqTrace,
                   sent, timer, armedAt, aborted, response, val, err,
                   errTrace, outcome>>

Request(method, data, headers) ==
    [method |-> method,
     body |-> IF PayloadTruthy(data) THEN JSONStringify(data) ELSE Absent,
     headers |-> headers, timeout |-> NoTimeout, marks |-> <<>>]

get(c) ==
    /\ \E h \in CallerHeaders : makeRequest(c, Request("GET", Absent, h))
    /\ payload' = [payload EXCEPT ![c] = Absent]

post(c) ==
    \E h \in CallerHeaders, data \in Payloads :
        /\ makeRequest(c, Request("POST", data, h))
        /\ payload' = [payload EXCEPT ![c] = data]

put(c) ==
    \E h \in CallerHeaders, data \in Payloads :
        /\ makeRequest(c, Request("PUT", data, h))
        /\ payload' = [payload EXCEPT ![c] = data]

patch(c) ==
    \E h \in CallerHeaders, data \in Payloads :
        /\ makeRequest(c, Request("PATCH", data, h))
        /\ payload' = [payload EXCEPT ![c] = data]

delete(c) ==
    /\ \E h \in CallerHeaders : makeRequest(c, Request("DELETE", Absent, h))
    /\ payload' = [payload EXCEPT ![c] = Absent]

\* One turn of the loop of applyRequestInterceptors.
applyRequestInterceptors(c) ==
    /\ pc[c] = "request-interceptors"
    /\ idx[c] <= Len(requestInterceptors)
    /\ LET i == idx[c]
           r == RequestInterceptor(requestInterceptors[i], i, cfg[c],
                                   localStorage)
       IN /\ reqTrace' = [reqTrace EXCEPT ![c] =
                            Append(@, [i |-> i, in |-> cfg[c],
                                       out |-> r.config, threw |-> r.threw,
                                       token |-> localStorage["auth_token"]])]
          /\ IF r.threw
             THEN /\ Catch(c, r.error, <<>>)
                  /\ UNCHANGED cfg
             ELSE /\ cfg' = [cfg EXCEPT ![c] = r.config]
                  /\ idx' = [idx EXCEPT ![c] = i + 1]
                  /\ UNCHANGED <<pc, err, outcome, log>>
    /\ UNCHANGED <<hookVars, pureVars, clientVars, browserVars, payload, args,
                   sent, timer, armedAt, aborted, response, val, errTrace>>

RequestChainDone_early(c) == idx[c] >= Len(requestInterceptors)

\* The for-of loop of applyRequestInterceptors has visited every interceptor.
RequestChainDone(c) == idx[c] > Len(requestInterceptors)

\* this.config.timeout of a client constructed without a config:
\* defaultConfig.timeout, which is env.API_TIMEOUT.
ClientTimeout == DefaultApiTimeout

\* finalConfig.timeout || this.config.timeout
EffectiveTimeout(config) ==
    IF config.timeout # NoTimeout /\ config.timeout[1] # 0
    THEN config.timeout[1]
    ELSE ClientTimeout

\* The chain is through: the timeout guard is armed and fetch is called with
\* the final descriptor and the signal of the call's own AbortController.
fetch(c) ==
    /\ pc[c] = "request-interceptors"
    /\ RequestChainDone(c)
    /\ sent' = [sent EXCEPT ![c] = Append(@, cfg[c])]
    /\ timer' = [timer EXCEPT ![c] = "armed"]
    /\ armedAt' = [armedAt EXCEPT ![c] = EffectiveTimeout(cfg[c])]
    /\ pc' = [pc EXCEPT ![c] = "fetch"]
    /\ Logged(c, <<"fetch">>)
    /\ UNCHANGED <<hookVars, pureVars, clientVars, browserVars, payload, args,
                   cfg, idx, reqTrace, aborted, response, val, err, errTrace,
                   outcome>>

timeoutFires_shared(c) ==
    /\ timer[c] = "armed"
    /\ timer' = [timer EXCEPT ![c] = "fired"]
    /\ aborted' = [d \in Calls |-> TRUE]
    /\ Logged(c, <<"abort">>)
    /\ UNCHANGED <<hookVars, pureVars, clientVars, browserVars, payload, args,
                   pc, cfg, idx, reqTrace, sent, response, val, err, errTrace,
                   outcome, armedAt>>

\* The callback of setTimeout: controller.abort().
timeoutFires(c) ==
    /\ timer[c] = "armed"
    /\ timer' = [timer EXCEPT ![c] = "fired"]
    /\ aborted' = [aborted EXCEPT ![c] = TRUE]
    /\ Logged(c, <<"abort">>)
    /\ UNCHANGED <<hookVars, pureVars, clientVars, browserVars, payload, args,
                   pc, cfg, idx, reqTrace, sent, response, val, err, errTrace,
                   outcome, armedAt>>

\* fetch resolves with the response's status line and headers: the guard is
\* cleared and the body is left to be read.
fetchResolves(c) ==
    /\ pc[c] = "fetch"
    /\ ~aborted[c]
    /\ \E status \in Statuses, body \in Bodies :
          /\ response' = [response EXCEPT ![c] =
                            [status |-> status, body |-> body]]
          /\ pc' = [pc EXCEPT ![c] =
                      IF Ok(status) THEN "json" ELSE "error-json"]
    /\ timer' = [timer EXCEPT ![c] = "cleared"]
    /\ Logged(c, <<"response">>)
    /\ UNCHANGED <<hookVars, pureVars, clientVars, browserVars, payload, args,
                   cfg, idx, reqTrace, sent, armedAt, aborted, val, err,
                   errTrace, outcome>>

fetchFails_retry(c) ==
    /\ pc[c] = "fetch"
    /\ ~aborted[c]
    /\ IF Len(sent[c]) < 2
       THEN /\ sent' = [sent EXCEPT ![c] = Append(@, cfg[c])]
            /\ Logged(c, <<"fetch-failed", "fetch">>)
            /\ UNCHANGED <<pc, err, idx, outcome>>
       ELSE /\ Catch(c, Thrown("TypeError", "Failed to fetch"),
                     <<"fetch-failed">>)
            /\ UNCHANGED sent
    /\ UNCHANGED <<hookVars, pureVars, clientVars, browserVars, payload, args,
                   cfg, reqTrace, timer, armedAt, aborted, response, val,
                   errTrace>>

\* fetch rejects because the network failed (connection refused, DNS).
fetchFails(c) ==
    /\ pc[c] = "fetch"
    /\ ~aborted[c]
    /\ Catch(c, Thrown("TypeError", "Failed to fetch"), <<"fetch-failed">>)
    /\ UNCHANGED <<hookVars, pureVars, clientVars, browserVars, payload, args,
                   cfg, reqTrace, sent, timer, armedAt, aborted, response,
                   val, errTrace>>

\* fetch rejects because its signal was aborted.
fetchAborted(c) ==
    /\ pc[c] = "fetch"
    /\ aborted[c]
    /\ Catch(c, Thrown("AbortError", "The operation was aborted"),
             <<"fetch-aborted">>)
    /\ UNCHANGED <<hookVars, pureVars, clientVars, browserVars, payload, args,
                   cfg, reqTrace, sent, timer, armedAt, aborted, response,
                   val, errTrace>>

\* The HTTP-status branch: response.json().catch(() => ({})) settles, the
\* ApiClientError is built from the decoded body and applyErrorInterceptors
\* starts.  Reading a field of a body that decoded to null throws a
\* TypeError inside the try block.
httpError(c) ==
    /\ pc[c] = "error-json"
    /\ response[c].body # Stalled
    /\ LET body == response[c].body
           errorData == IF body.decodes THEN body.v ELSE JEmptyObject
       IN IF errorData.t = "null"
          THEN Catch(c, Thrown("TypeError", "Cannot read properties of null"),
                     <<>>)
          ELSE /\ err' = [err EXCEPT ![c] =
                            [ApiClientError(
                                IF errorData.message # Absent
                                THEN errorData.message
                                ELSE "HTTP <status>: <statusText>",
                                response[c].status,
                                IF errorData.code # Absent
                                THEN errorData.code
                                ELSE "HTTP_ERROR")
                             EXCEPT !.details = errorData.details]]
               /\ idx' = [idx EXCEPT ![c] = 1]
               /\ pc' = [pc EXCEPT ![c] = "error-interceptors"]
               /\ Logged(c, <<"error">>)
               /\ UNCHANGED outcome
    /\ UNCHANGED <<hookVars, pureVars, clientVars, browserVars, payload, args,
                   cfg, reqTrace, sent, timer, armedAt, aborted, response,
                   val, errTrace>>

\* const data = await response.json(), on a 2xx response.
parseResponse(c) ==
    /\ pc[c] = "json"
    /\ response[c].body # Stalled
    /\ LET body == response[c].body
       IN IF body.decodes
          THEN /\ val' = [val EXCEPT ![c] = body.v]
               /\ idx' = [idx EXCEPT ![c] = 1]
               /\ pc' = [pc EXCEPT ![c] = "response-interceptors"]
               /\ UNCHANGED <<err, outcome, log>>
          ELSE /\ Catch(c, Thrown("SyntaxError", "Unexpected token"), <<>>)
               /\ UNCHANGED val
    /\ UNCHANGED <<hookVars, pureVars, clientVars, browserVars, payload, args,
                   cfg, reqTrace, sent, timer, armedAt, aborted, response,
                   errTrace>>

\* One turn of the loop of applyResponseInterceptors.  makeRequest returns
\* the promise of applyResponseInterceptors without awaiting it, so what an
\* interceptor throws rejects the call as it is: the catch block of
\* makeRequest is no longer on the stack.
applyResponseInterceptors(c) ==
    /\ pc[c] = "response-interceptors"
    /\ idx[c] <= Len(responseInterceptors)
    /\ LET r == ResponseInterceptor(responseInterceptors[idx[c]], val[c])
       IN IF r.threw
          THEN /\ Reject(c, r.error, <<"throw">>)
               /\ UNCHANGED <<val, idx>>
          ELSE /\ val' = [val EXCEPT ![c] = r.value]
               /\ idx' = [idx EXCEPT ![c] = @ + 1]
               /\ UNCHANGED <<pc, outcome, log>>
    /\ UNCHANGED <<hookVars, pureVars, clientVars, browserVars, payload, args,
                   cfg, reqTrace, sent, timer, armedAt, aborted, response,
                   err, errTrace>>

\* applyResponseInterceptors returns finalResponse: the call resolves.
resolve(c) ==
    /\ pc[c] = "response-interceptors"
    /\ idx[c] > Len(responseInterceptors)
    /\ pc' = [pc EXCEPT ![c] = "done"]
    /\ outcome' = [outcome EXCEPT ![c] =
                     [kind |-> "resolved", error |-> NoError,
                      value |-> val[c]]]
    /\ Logged(c, <<"resolved">>)
    /\ UNCHANGED <<hookVars, pureVars, clientVars, browserVars, payload, args,
                   cfg, idx, reqTrace, sent, timer, armedAt, aborted,
                   response, val, err, errTrace>>

\* localStorage.removeItem(key)
removeItem(store, key) == [store EXCEPT ![key] = Absent]

\* One turn of the loop of applyErrorInterceptors.  The interceptor that
\* apiClient registers ends by throwing the error it was given, which ends
\* the loop; an interceptor that returns lets the loop go on.
applyErrorInterceptors(c) ==
    /\ pc[c] = "error-interceptors"
    /\ idx[c] <= Len(errorInterceptors)
    /\ errTrace' = [errTrace EXCEPT ![c] = Append(@, idx[c])]
    /\ IF errorInterceptors[idx[c]] = "default"
       THEN /\ IF err[c].status = 401
               THEN /\ localStorage' =
                         removeItem(removeItem(localStorage, "auth_token"),
                                    "refresh_token")
                    /\ location' = "/login"
               ELSE UNCHANGED <<localStorage, location>>
            /\ consoleErrors' =
                 IF ENABLE_DEBUG THEN consoleErrors + 1 ELSE consoleErrors
            /\ Reject(c, err[c], <<>>)
            /\ UNCHANGED idx
       ELSE /\ idx' = [idx EXCEPT ![c] = @ + 1]
            /\ UNCHANGED <<browserVars, pc, outcome, log>>
    /\ UNCHANGED <<hookVars, pureVars, clientVars, payload, args, cfg,
                   reqTrace, sent, timer, armedAt, aborted, response, val,
                   err>>

rethrow_swallow(c) ==
    /\ pc[c] = "error-interceptors"
    /\ idx[c] > Len(errorInterceptors)
    /\ pc' = [pc EXCEPT ![c] = "done"]
    /\ outcome' = [outcome EXCEPT ![c] =
                     [kind |-> "resolved", error |-> NoError,
                      value |-> NoValue]]
    /\ Logged(c, <<"resolved">>)
    /\ UNCHANGED <<hookVars, pureVars, clientVars, browserVars, payload, args,
                   cfg, idx, reqTrace, sent, timer, armedAt, aborted,
                   response, val, err, errTrace>>

\* throw error, at the end of applyErrorInterceptors.
rethrow(c) ==
    /\ pc[c] = "error-interceptors"
    /\ idx[c] > Len(errorInterceptors)
    /\ Reject(c, err[c], <<>>)
    /\ UNCHANGED <<hookVars, pureVars, clientVars, browserVars, payload, args,
                   cfg, idx, reqTrace, sent, timer, armedAt, aborted,
                   response, val, err, errTrace>>

----------------------------------------------------------------------------

Next ==
    \/ \E k \in RequestKinds : addRequestInterceptor(k)
    \/ \E k \in ResponseKinds : addResponseInterceptor(k)
    \/ \E k \in ErrorKinds : addErrorInterceptor(k)
    \/ \E c \in Solo : get(c)
    \/ \E c \in Solo : post(c)
    \/ \E c \in Solo : put(c)
    \/ \E c \in Solo : patch(c)
    \/ \E c \in Solo : delete(c)
    \/ \E c \in Solo : applyRequestInterceptors(c)
    \/ \E c \in Solo : fetch(c)
    \/ \E c \in Solo : timeoutFires(c)
    \/ \E c \in Solo : fetchResolves(c)
    \/ \E c \in Solo : fetchFails(c)
    \/ \E c \in Solo : fetchAborted(c)
    \/ \E c \in Solo : httpError(c)
    \/ \E c \in Solo : parseResponse(c)
    \/ \E c \in Solo : applyResponseInterceptors(c)
    \/ \E c \in Solo : resolve(c)
    \/ \E c \in Solo : applyErrorInterceptors(c)
    \/ \E c \in Solo : rethrow(c)

Spec == Init /\ [][Next]_vars

----------------------------------------------------------------------------
(* Several calls of one client in flight at once.  The client is a new
   ApiService without interceptors, so that the loops of the three chains
   have no turn to take. *)

InitConcurrent ==
    /\ NewApiService
    /\ registered = 0
    /\ localStorage = SignedOut
    /\ location = "/"
    /\ consoleErrors = 0
    /\ InitCalls
    /\ EnvUnset
    /\ UrlUnset
    /\ HooksUnused

\* get(url), without a config
getPlain(c) ==
    /\ makeRequest(c, Request("GET", Absent, NoHeaders))
    /\ payload' = [payload EXCEPT ![c] = Absent]

NextConcurrent ==
    \/ \E c \in Calls : getPlain(c)
    \/ \E c \in Calls : fetch(c)
    \/ \E c \in Calls : timeoutFires(c)
    \/ \E c \in Calls : fetchResolves(c)
    \/ \E c \in Calls : fetchFails(c)
    \/ \E c \in Calls : fetchAborted(c)
    \/ \E c \in Calls : httpError(c)
    \/ \E c \in Calls : parseResponse(c)
    \/ \E c \in Calls : resolve(c)
    \/ \E c \in Calls : rethrow(c)

SpecConcurrent == InitConcurrent /\ [][NextConcurrent]_vars

----------------------------------------------------------------------------
(* A call that names its own timeout *)

InitTimeout ==
    /\ NewApiService \/ TheApiClient
    /\ registered = 0
    /\ localStorage \in {SignedIn, SignedOut}
    /\ location = "/"
    /\ consoleErrors = 0
    /\ InitCalls
    /\ EnvUnset
    /\ UrlUnset
    /\ HooksUnused

\* get(url, { timeout })
getTimed(c) ==
    /\ \E t \in TimeoutOverrides :
          makeRequest(c, [Request("GET", Absent, NoHeaders)
                             EXCEPT !.timeout = t])
    /\ payload' = [payload EXCEPT ![c] = Absent]

NextTimeout ==
    \/ \E c \in Solo : getTimed(c)
    \/ \E c \in Solo : applyRequestInterceptors(c)
    \/ \E c \in Solo : fetch(c)
    \/ \E c \in Solo : timeoutFires(c)
    \/ \E c \in Solo : fetchResolves(c)
    \/ \E c \in Solo : fetchFails(c)
    \/ \E c \in Solo : fetchAborted(c)
    \/ \E c \in Solo : httpError(c)
    \/ \E c \in Solo : parseResponse(c)
    \/ \E c \in Solo : applyResponseInterceptors(c)
    \/ \E c \in Solo : resolve(c)
    \/ \E c \in Solo : applyErrorInterceptors(c)
    \/ \E c \in Solo : rethrow(c)

SpecTimeout == InitTimeout /\ [][NextTimeout]_vars

----------------------------------------------------------------------------
(* A call under fair scheduling: every interceptor returns or throws, every
   continuation that is ready runs, an armed timer fires and an aborted
   fetch rejects.  Whether and when the server answers is left open. *)

InitLive ==
    /\ NewApiService \/ TheApiClient
    /\ registered = 0
    /\ localStorage \in {SignedIn, SignedOut}
    /\ location = "/"
    /\ consoleErrors = 0
    /\ InitCalls
    /\ EnvUnset
    /\ UrlUnset
    /\ HooksUnused

NextLive ==
    \/ \E c \in Solo : getPlain(c)
    \/ \E c \in Solo : applyRequestInterceptors(c)
    \/ \E c \in Solo : fetch(c)
    \/ \E c \in Solo : timeoutFires(c)
    \/ \E c \in Solo : fetchResolves(c)
    \/ \E c \in Solo : fetchFails(c)
    \/ \E c \in Solo : fetchAborted(c)
    \/ \E c \in Solo : httpError(c)
    \/ \E c \in Solo : parseResponse(c)
    \/ \E c \in Solo : applyResponseInterceptors(c)
    \/ \E c \in Solo : resolve(c)
    \/ \E c \in Solo : applyErrorInterceptors(c)
    \/ \E c \in Solo : rethrow(c)

Fairness ==
    \A c \in Solo :
        /\ WF_vars(applyRequestInterceptors(c))
        /\ WF_vars(fetch(c))
        /\ WF_vars(timeoutFires(c))
        /\ WF_vars(fetchAborted(c))
        /\ WF_vars(httpError(c))
        /\ WF_vars(parseResponse(c))
        /\ WF_vars(applyResponseInterceptors(c))
        /\ WF_vars(resolve(c))
        /\ WF_vars(applyErrorInterceptors(c))
        /\ WF_vars(rethrow(c))

SpecLive == InitLive /\ [][NextLive]_vars /\ Fairness

----------------------------------------------------------------------------
(* useApi: execute, reset and the unmount cleanup *)

\* All but the hooks, at rest: apiClient as the module exports it.
\* The number of execute calls that have settled.
SettledSoFar == Cardinality({e \in Execs : exec[e].pc = "done"})

ClientAtRest ==
    /\ TheApiClient
    /\ registered = 0
    /\ localStorage = SignedOut
    /\ location = "/"
    /\ consoleErrors = 0
    /\ InitCalls
    /\ EnvUnset
    /\ UrlUnset

restVars == <<pureVars, clientVars, browserVars, callVars>>

InitUseApi ==
    /\ ClientAtRest
    /\ \E onSuccess \in CallbackKinds, onError \in CallbackKinds :
          hook = UseApi(onSuccess, onError)
    /\ exec = [e \in Execs |-> NotExecuted]
    /\ pager = NoPager

MountedRef_always(h) == TRUE

\* mountedRef.current
MountedRef(h) == h.mounted

\* callback?.(value): the number of calls made of a callback of this kind.
Called(kind, calls) == IF kind = "none" THEN calls ELSE calls + 1

\* The catch block of execute, entered with an error of this message: the
\* state it leaves, and whether onError threw out of it.
CatchBlock(h, message) ==
    IF MountedRef(h)
    THEN [hook |-> [h EXCEPT !.error = message,
                             !.onErrorCalls = Called(h.onError, @)],
          threw |-> h.onError = "throws"]
    ELSE [hook |-> h, threw |-> FALSE]

\* The finally block of execute.
FinallyBlock(h) ==
    IF MountedRef(h) THEN [h EXCEPT !.isLoading = FALSE] ELSE h

\* execute(...args) up to `await apiCall(...args)`.  Execute calls are
\* numbered in the order they are made.
execute(e) ==
    /\ exec[e].pc = "idle"
    /\ \A d \in Execs : d < e => exec[d].pc # "idle"
    /\ hook' = [hook EXCEPT !.isLoading = TRUE, !.error = Null,
                            !.started = Append(@, e)]
    /\ exec' = [exec EXCEPT ![e].pc = "awaiting"]
    /\ UNCHANGED <<pager, restVars>>

\* apiCall resolved: the rest of the try block, the catch block when
\* onSuccess throws, and the finally block.
apiCallResolves(e) ==
    /\ exec[e].pc = "awaiting"
    /\ LET onSuccessThrew == MountedRef(hook) /\ hook.onSuccess = "throws"
           tried ==
               IF MountedRef(hook)
               THEN [hook EXCEPT !.data = ResultOf(e),
                                 !.onSuccessCalls = Called(hook.onSuccess, @)]
               ELSE hook
           caught ==
               IF onSuccessThrew
               THEN CatchBlock(tried, CallbackMessage)
               ELSE [hook |-> tried, threw |-> FALSE]
       IN /\ hook' = FinallyBlock(caught.hook)
          /\ exec' = [exec EXCEPT ![e] =
                        [pc |-> "done", api |-> "resolved",
                         ret |-> IF caught.threw THEN "rejected"
                                 ELSE IF onSuccessThrew THEN "null"
                                 ELSE "result",
                         mounted |-> hook.mounted,
                         nth |-> SettledSoFar + 1]]
    /\ UNCHANGED <<pager, restVars>>

\* apiCall rejected: the catch block and the finally block.
apiCallRejects(e) ==
    /\ exec[e].pc = "awaiting"
    /\ LET caught == CatchBlock(hook, MessageOf(e))
       IN /\ hook' = FinallyBlock(caught.hook)
          /\ exec' = [exec EXCEPT ![e] =
                        [pc |-> "done", api |-> "rejected",
                         ret |-> IF caught.threw THEN "rejected" ELSE "null",
                         mounted |-> hook.mounted,
                         nth |-> SettledSoFar + 1]]
    /\ UNCHANGED <<pager, restVars>>

\* reset()
reset ==
    /\ hook' = [hook EXCEPT !.data = Null, !.isLoading = FALSE,
                            !.error = Null, !.wasReset = TRUE]
    /\ UNCHANGED <<exec, pager, restVars>>

\* The cleanup of the mount effect.
unmount ==
    /\ hook.mounted
    /\ hook' = [hook EXCEPT !.mounted = FALSE]
    /\ UNCHANGED <<exec, pager, restVars>>

NextUseApi ==
    \/ \E e \in Execs : execute(e)
    \/ \E e \in Execs : apiCallResolves(e)
    \/ \E e \in Execs : apiCallRejects(e)
    \/ reset
    \/ unmount

SpecUseApi == InitUseApi /\ [][NextUseApi]_vars

----------------------------------------------------------------------------
(* usePaginatedApi: renders, effects, loadPage/nextPage/prevPage/refresh *)

MaxRequests == 3

\* const { initialPage = 1, pageSize = 20, ...apiOptions } = options
InitialPage == 1
DefaultPageSize == 20

\* The page of execute(), called without arguments.
UndefinedPage == 0

\* options.immediate
Immediates == {"undefined", "true", "false"}

\* The state of the hook and of the useApi inside it.  results counts the
\* results the inner setData was given: each is a new object.
InitialPagerState ==
    [currentPage |-> InitialPage, data |-> "[]", pagination |-> NoPagination,
     isLoading |-> FALSE, error |-> "null", results |-> 0]

\* Before the first render.  state is what the setters were last given,
\* shown is the state of the last render, which the callbacks of that render
\* close over; gen counts the renders; ids name, for each function, the
\* render that created the one now in use; effectDeps are the dependencies
\* the two effects last ran with; lastOk is the pagination of the last
\* response the server answered with.
NewPager(immediate, wraps) ==
    [rendered |-> FALSE, immediate |-> immediate, wraps |-> wraps,
     state |-> InitialPagerState, shown |-> InitialPagerState, gen |-> 0,
     ids |-> [onSuccess |-> 0, execute |-> 0, loadPage |-> 0],
     effectDeps |-> [execute |-> 0, loadPage |-> 0],
     requests |-> <<>>, lastOk |-> NoPagination]

InitPager ==
    /\ ClientAtRest
    /\ hook = UseApi("none", "none")
    /\ exec = [e \in Execs |-> NotExecuted]
    /\ \E immediate \in Immediates, wraps \in BOOLEAN :
          pager = NewPager(immediate, wraps)

\* useCallback(fn, deps): the function of this render when a dependency
\* changed, else the one kept from before.
UseCallback(kept, depsChanged, gen) == IF depsChanged THEN gen ELSE kept

\* execute(page): the state is set, and apiCall issues
\* apiClient.get(`${baseUrl}?page=${page}&limit=${pageSize}`).  The request
\* records who asked, and what pagination the caller saw when asking.
ExecuteOn(p, page, via) ==
    [p EXCEPT !.state.isLoading = TRUE,
              !.state.error = "null",
              !.requests =
                  Append(@, [page |-> page, limit |-> DefaultPageSize,
                             via |-> via, status |-> "pending",
                             seen |-> p.shown.pagination,
                             last |-> p.lastOk])]

\* loadPage(page)
LoadPageOn(p, page, via) ==
    ExecuteOn([p EXCEPT !.state.currentPage = page], page, via)

\* The effect of useApi: if (immediate) execute()
UseApiEffect(p, ids) ==
    IF ids.execute # p.effectDeps.execute /\ p.immediate = "true"
    THEN ExecuteOn(p, UndefinedPage, "immediate")
    ELSE p

\* The mount effect: if (options.immediate !== false) loadPage(initialPage)
MountEffect(p, ids) ==
    IF ids.loadPage # p.effectDeps.loadPage /\ p.immediate # "false"
    THEN LoadPageOn(p, InitialPage, "effect")
    ELSE p

\* A render (the first, or one that a changed state called for) and the
\* effects that follow it.  onSuccess is written inline, so every render
\* makes a new one.
render ==
    /\ ~pager.rendered \/ pager.state # pager.shown
    /\ LET gen == pager.gen + 1
           execute_ == UseCallback(pager.ids.execute,
                                   gen # pager.ids.onSuccess, gen)
           loadPage_ == UseCallback(pager.ids.loadPage,
                                    execute_ # pager.ids.execute, gen)
           ids == [onSuccess |-> gen, execute |-> execute_,
                   loadPage |-> loadPage_]
           rendered == [pager EXCEPT !.rendered = TRUE, !.gen = gen,
                                     !.shown = pager.state]
           effects == MountEffect(UseApiEffect(rendered, ids), ids)
       IN pager' = [effects EXCEPT
                       !.ids = ids,
                       !.effectDeps = [execute |-> execute_,
                                       loadPage |-> loadPage_]]
    /\ Len(pager'.requests) <= MaxRequests
    /\ UNCHANGED <<hook, exec, restVars>>

\* loadPage(page), called by the component.
loadPage(page) ==
    /\ pager.rendered
    /\ Len(pager.requests) < MaxRequests
    /\ pager' = LoadPageOn(pager, page, "loadPage")
    /\ UNCHANGED <<hook, exec, restVars>>

\* nextPage(), with the pagination and currentPage of the last render.
nextPage ==
    /\ pager.rendered
    /\ Len(pager.requests) < MaxRequests
    /\ pager.shown.pagination.hasNext
    /\ pager' = LoadPageOn(pager, pager.shown.currentPage + 1, "nextPage")
    /\ UNCHANGED <<hook, exec, restVars>>

\* prevPage()
prevPage ==
    /\ pager.rendered
    /\ Len(pager.requests) < MaxRequests
    /\ pager.shown.pagination.hasPrev
    /\ pager' = LoadPageOn(pager, pager.shown.currentPage - 1, "prevPage")
    /\ UNCHANGED <<hook, exec, restVars>>

\* refresh()
refresh ==
    /\ pager.rendered
    /\ Len(pager.requests) < MaxRequests
    /\ pager' = LoadPageOn(pager, pager.shown.currentPage, "refresh")
    /\ UNCHANGED <<hook, exec, restVars>>

\* What the items of a result are, as the hook stores them.
DataOf(result) ==
    IF result.data = 0 THEN "undefined"
    ELSE IF Inner(result.data).t = "array" THEN "items"
    ELSE "object"

\* The server answers request i with its page; apiClient.get resolves with
\* what the default response interceptor makes of the body, and execute goes
\* on: setData, onSuccess (setData, setPagination), setIsLoading(false).
pageResolves(i) ==
    /\ i \in 1..Len(pager.requests)
    /\ pager.requests[i].status = "pending"
    /\ pager.requests[i].page \in 1..TotalPages
    /\ LET page == pager.requests[i].page
           body == IF pager.wraps THEN WrappedPage(page) ELSE PageData(page)
           result == DefaultResponseInterceptor(body)
       IN pager' = [pager EXCEPT
                       !.requests[i].status = "ok",
                       !.lastOk = Pagination(page),
                       !.state.results = @ + 1,
                       !.state.data = DataOf(result),
                       !.state.pagination = result.pagination,
                       !.state.isLoading = FALSE]
    /\ UNCHANGED <<hook, exec, restVars>>

\* Request i fails: setError, setIsLoading(false).
pageRejects(i) ==
    /\ i \in 1..Len(pager.requests)
    /\ pager.requests[i].status = "pending"
    /\ pager' = [pager EXCEPT !.requests[i].status = "failed",
                              !.state.error = "message",
                              !.state.isLoading = FALSE]
    /\ UNCHANGED <<hook, exec, restVars>>

NextPager ==
    \/ render
    \/ \E page \in 1..TotalPages : loadPage(page)
    \/ nextPage
    \/ prevPage
    \/ refresh
    \/ \E i \in 1..MaxRequests : pageResolves(i)
    \/ \E i \in 1..MaxRequests : pageRejects(i)

SpecPager == InitPager /\ [][NextPager]_vars

----------------------------------------------------------------------------
(* Process start, on its own: env.API_TIMEOUT is read from the environment *)

InitEnv ==
    /\ TheApiClient
    /\ registered = 0
    /\ localStorage = SignedOut
    /\ location = "/"
    /\ consoleErrors = 0
    /\ InitCalls
    /\ envValue \in EnvValues
    /\ envResult = NotRead
    /\ UrlUnset
    /\ HooksUnused

\* API_TIMEOUT: getNumberEnvVar('VITE_API_TIMEOUT', 10000)
readEnv ==
    /\ ~envResult.read
    /\ envResult' = getNumberEnvVar(envValue, DefaultApiTimeout)
    /\ UNCHANGED <<envValue, urlVars, clientVars, browserVars, callVars,
                   hookVars>>

NextEnv == readEnv

SpecEnv == InitEnv /\ [][NextEnv]_vars

----------------------------------------------------------------------------
(* URL resolution, on its own: makeRequest resolves the URL of a call *)

InitUrl ==
    /\ TheApiClient
    /\ registered = 0
    /\ localStorage = SignedOut
    /\ location = "/"
    /\ consoleErrors = 0
    /\ InitCalls
    /\ EnvUnset
    /\ urlArgs \in UrlArgs
    /\ fullUrl = <<>>
    /\ HooksUnused

\* const fullUrl = this.buildUrl(url, finalConfig.baseURL)
resolveUrl ==
    /\ fullUrl = <<>>
    /\ fullUrl' = buildUrl(urlArgs.url, urlArgs.baseURL, urlArgs.configBase)
    /\ UNCHANGED <<urlArgs, envVars, clientVars, browserVars, callVars,
                   hookVars>>

NextUrl == resolveUrl

SpecUrl == InitUrl /\ [][NextUrl]_vars

----------------------------------------------------------------------------
(* The claims *)

Events(c) == {log[c][i] : i \in 1..Len(log[c])}

\* Some event a of call c comes before some event b of it.
Before(c, a, b) ==
    \E i, j \in 1..Len(log[c]) : i < j /\ log[c][i] = a /\ log[c][j] = b

Settled(c) == pc[c] = "done"

\* The client is apiClient: its chains start with the module's interceptors.
IsApiClient ==
    /\ Len(requestInterceptors) > 0 /\ requestInterceptors[1] = "auth"
    /\ Len(responseInterceptors) > 0 /\ responseInterceptors[1] = "unwrap"
    /\ Len(errorInterceptors) > 0 /\ errorInterceptors[1] = "default"

\* C1: the request interceptors r1..rn of a client are applied in the order
\* of their registration, r1 first and each next one to the descriptor the
\* one before it returned, and fetch is called only after rn has returned,
\* with the descriptor rn returned.
C1_RequestInterceptorsInOrder ==
    \A c \in Calls :
        LET t == reqTrace[c]
            n == Len(requestInterceptors)
        IN /\ \A j \in 1..Len(t) :
                /\ t[j].i = j
                /\ j > 1 => t[j].in = t[j - 1].out /\ ~t[j - 1].threw
           /\ Len(sent[c]) > 0 =>
                /\ Len(t) = n
                /\ \A j \in 1..n : ~t[j].threw
                /\ n > 0 => sent[c][1] = t[n].out
                /\ LET m == sent[c][1].marks
                   IN /\ \A a, b \in 1..Len(m) : a < b => m[a] < m[b]
                      /\ {m[a] : a \in 1..Len(m)} =
                           {i \in 1..n : requestInterceptors[i] = "mark"}

\* A request went out through two interceptors that both rewrote it.
C1_Witness ==
    \E c \in Calls :
        /\ Len(requestInterceptors) = 2
        /\ Len(sent[c]) = 1
        /\ sent[c][1].marks = <<1, 2>>

TimedOut(c) == "fetch-aborted" \in Events(c)

\* C3, as claimed: when the network operation of a call does not complete
\* within its timeout, the status 0 error of the call is produced before the
\* operation is aborted.
C3_ErrorBeforeAbort ==
    \A c \in Calls : TimedOut(c) => Before(c, "error", "abort")

\* C3, amended: when the network operation of a call does not complete
\* within its timeout, the guard aborts the operation first, and the call
\* then produces a network-level error with status 0, which is the error
\* its caller is given.
C3_ErrorAfterAbort ==
    \A c \in Calls :
        TimedOut(c) =>
            /\ Before(c, "abort", "error")
            /\ ~Before(c, "error", "abort")
            /\ err[c].name = "ApiClientError"
            /\ err[c].status = 0
            /\ Settled(c) =>
                 /\ outcome[c].kind = "rejected"
                 /\ outcome[c].error.status = 0

\* A call whose fetch was aborted by its guard has rejected.
C3_Witness ==
    \E c \in Calls :
        /\ TimedOut(c)
        /\ Settled(c)
        /\ outcome[c].kind = "rejected"
        /\ outcome[c].error.status = 0

\* C4: the timeout guard of a call never fires (calling abort) once the
\* network operation of the call has completed, be it with a response or
\* with a network failure that the catch block handled.
C4_NoAbortAfterCompletion ==
    \A c \in Calls :
        /\ ~Before(c, "response", "abort")
        /\ ~Before(c, "fetch-failed", "abort")

HttpFailed(c) == response[c] # NoResponse /\ ~Ok(response[c].status)

\* C2: whenever the response has a non-2xx status, the call rejects with an
\* error whose status is the status of the response, whatever the body of
\* the response holds.
C2_ErrorStatusIsServerStatus ==
    \A c \in Calls :
        HttpFailed(c) =>
            /\ pc[c] = "error-interceptors" =>
                 err[c].status = response[c].status
            /\ Settled(c) =>
                 /\ outcome[c].kind = "rejected"
                 /\ outcome[c].error.status = response[c].status

\* C5: a call ends in one outcome, a decoded payload or a rejection with an
\* ApiClientError; whatever interceptors are registered, no call rejects with
\* a value that is not an ApiClientError.
C5_RejectsOnlyWithApiClientError ==
    \A c \in Calls :
        /\ Settled(c) <=> outcome[c].kind \in {"resolved", "rejected"}
        /\ outcome[c].kind = "rejected" =>
             InstanceOfApiClientError(outcome[c].error)

\* The network call failed or timed out, the status is non-2xx, or the body
\* of a 2xx response does not decode.
Failed(c) ==
    \/ "fetch-failed" \in Events(c)
    \/ TimedOut(c)
    \/ HttpFailed(c)
    \/ response[c] # NoResponse /\ ~response[c].body.decodes

\* C6: the pipeline swallows no error: a call whose network call fails or
\* times out, whose response is non-2xx or whose 2xx body does not decode
\* never resolves, and settles by rejecting, also when the error interceptors
\* only look at the error and return.
C6_NoErrorSwallowed ==
    \A c \in Calls :
        Failed(c) =>
            /\ outcome[c].kind # "resolved"
            /\ Settled(c) => outcome[c].kind = "rejected"

\* A failed call went through two interceptors that only observe, and
\* rejected.
C6_Witness ==
    \E c \in Calls :
        /\ errorInterceptors = <<"observe", "observe">>
        /\ errTrace[c] = <<1, 2>>
        /\ HttpFailed(c)
        /\ outcome[c].kind = "rejected"

\* C7: a thrown value that is not an ApiClientError, at whichever stage it is
\* thrown (a request interceptor, fetch, the decoding of a 2xx body, a
\* response interceptor), is wrapped into an ApiClientError with status 0
\* and code NETWORK_ERROR, goes through the error interceptors and is what
\* the call rejects with.
C7_ForeignExceptionsWrapped ==
    \A c \in Calls :
        "throw" \in Events(c) =>
            /\ "error" \in Events(c)
            /\ err[c] # NoError
            /\ Settled(c) =>
                 /\ outcome[c].kind = "rejected"
                 /\ outcome[c].error.name = "ApiClientError"
                 /\ outcome[c].error.status = 0
                 /\ outcome[c].error.code = "NETWORK_ERROR"

\* C8: on a failed call every registered error interceptor is applied to the
\* error once, in the order of registration, before the call rejects; also
\* the ones registered after the interceptor that apiClient comes with.
C8_EveryErrorInterceptorOnce ==
    \A c \in Calls :
        (Settled(c) /\ "error" \in Events(c)) =>
            /\ Len(errTrace[c]) = Len(errorInterceptors)
            /\ \A i \in 1..Len(errTrace[c]) : errTrace[c][i] = i

\* C9: when a call on apiClient gets a response with status 401, both
\* credential keys are removed and the user agent is sent to /login before
\* the caller sees the error.
C9_UnauthorizedClearsCredentials ==
    IsApiClient =>
        \A c \in Calls :
            (Settled(c) /\ response[c].status = 401) =>
                /\ localStorage["auth_token"] = Absent
                /\ localStorage["refresh_token"] = Absent
                /\ location = "/login"

\* C10: on apiClient as the module sets it up, a 2xx response whose body
\* decodes to an object with a `data` key resolves to the value under that
\* key and not to the object; a body without the key resolves unchanged.
C10_EnvelopeUnwrapped ==
    (IsApiClient /\ Len(responseInterceptors) = 1) =>
        \A c \in Calls :
            outcome[c].kind = "resolved" =>
                LET b == response[c].body.v
                IN IF b.t = "object" /\ b.data # 0
                   THEN /\ outcome[c].value = Inner(b.data)
                        /\ outcome[c].value # b
                   ELSE outcome[c].value = b

\* An envelope around a list arrived and the caller got the list.
C10_Witness ==
    \E c \in Calls :
        /\ IsApiClient
        /\ Len(responseInterceptors) = 1
        /\ response[c].body = Body(TRUE, JEnvelope(1))
        /\ outcome[c].kind = "resolved"
        /\ outcome[c].value = JArray


----------------------------------------------------------------------------
(* Claims about URL resolution *)

RECURSIVE TrimTrailingSlashes(_)
TrimTrailingSlashes(s) ==
    IF s # <<>> /\ s[Len(s)] = "/"
    THEN TrimTrailingSlashes(SubSeq(s, 1, Len(s) - 1))
    ELSE s

RECURSIVE TrimLeadingSlashes(_)
TrimLeadingSlashes(s) ==
    IF s # <<>> /\ s[1] = "/" THEN TrimLeadingSlashes(Tail(s)) ELSE s

Resolved == fullUrl # <<>>
EffectiveBase ==
    IF urlArgs.baseURL # <<>> THEN urlArgs.baseURL ELSE urlArgs.configBase

\* C11: for a relative path and a configured base URL, the resolved URL is
\* the base without its trailing slashes, one "/", and the path without its
\* leading slashes, however many slashes end the base and start the path.
C11_ExactlyOneSlash ==
    (Resolved /\ ~StartsWith(urlArgs.url, Http))
        => fullUrl = TrimTrailingSlashes(EffectiveBase) \o <<"/">>
                     \o TrimLeadingSlashes(urlArgs.url)

IsAbsoluteUrl(url) ==
    \/ StartsWith(url, Http \o <<":", "/", "/">>)
    \/ StartsWith(url, Http \o <<"s", ":", "/", "/">>)

\* C12: a path that is an absolute URL beginning with "http" is the resolved
\* URL, character for character, whatever the client's base URL and the
\* call's baseURL are.
C12_AbsoluteUrlVerbatim ==
    (Resolved /\ IsAbsoluteUrl(urlArgs.url)) => fullUrl = urlArgs.url

\* An absolute URL was resolved for a call that also named a baseURL.
C12_Witness ==
    /\ Resolved
    /\ IsAbsoluteUrl(urlArgs.url)
    /\ urlArgs.baseURL # <<>>
    /\ fullUrl = urlArgs.url

----------------------------------------------------------------------------
(* Claims about the configuration read at process start *)

\* A text that is a number from its first character to its last: an
\* optional sign, then digits, and nothing else.
IsNumberText(s) ==
    LET digits == IF s # <<>> /\ s[1] = "-" THEN Tail(s) ELSE s
    IN /\ digits # <<>>
       /\ \A i \in 1..Len(digits) : IsDigit(digits[i])

\* C20: reading API_TIMEOUT raises an error for every value that is set
\* and is not entirely a number (the empty text, digits followed by other
\* characters), instead of yielding a number.
C20_MalformedNumberFails ==
    (envResult.read /\ envValue.defined /\ ~IsNumberText(envValue.text))
        => envResult.threw

----------------------------------------------------------------------------
(* Claims about the number of network requests of a call *)

RequestInterceptorThrew(c) ==
    \E i \in 1..Len(reqTrace[c]) : reqTrace[c][i].threw

\* C13: every call results in exactly one network request, whether it
\* ends with a response, a failure, a timeout or a 401.
C13_ExactlyOneRequest ==
    \A c \in Calls : Settled(c) => Len(sent[c]) = 1

\* C13, amended: a call never issues a second request, and once it has
\* settled it has issued exactly one, unless a request interceptor threw,
\* in which case it has issued none.
C13_OneRequestUnlessInterceptorThrew ==
    \A c \in Calls :
        /\ Len(sent[c]) <= 1
        /\ Settled(c) =>
              Len(sent[c]) = IF RequestInterceptorThrew(c) THEN 0 ELSE 1

\* A call settled with an error after its one request failed on the network.
C13_Witness ==
    \E c \in Calls :
        /\ Settled(c)
        /\ "fetch-failed" \in Events(c)
        /\ outcome[c].kind = "rejected"
        /\ Len(sent[c]) = 1

----------------------------------------------------------------------------
(* Claims about timeouts and concurrent calls *)

NetworkFailed(c) == "fetch-failed" \in Events(c)

\* C14: a call whose timeout guard fired before the network call completed
\* rejects with status 0 and a code tag that differs from the code tag of
\* a call that failed on the network for another reason.
C14_TimeoutCodeIsSpecific ==
    \A c, d \in Calls :
        (Settled(c) /\ TimedOut(c) /\ Settled(d) /\ NetworkFailed(d))
            => /\ outcome[c].error.status = 0
               /\ outcome[c].error.code # outcome[d].error.code

\* C14, amended: such a call rejects with status 0 and the code tag
\* NETWORK_ERROR, which is also the code tag of a call that failed on the
\* network for another reason.
C14_TimeoutIsNetworkError ==
    \A c, d \in Calls :
        (Settled(c) /\ TimedOut(c))
            => /\ outcome[c].kind = "rejected"
               /\ outcome[c].error.status = 0
               /\ outcome[c].error.code = "NETWORK_ERROR"
               /\ (Settled(d) /\ NetworkFailed(d))
                     => outcome[d].error.code = outcome[c].error.code

\* One call timed out and another lost its connection; both have settled.
C14_Witness ==
    \E c, d \in Calls :
        /\ Settled(c) /\ TimedOut(c)
        /\ Settled(d) /\ NetworkFailed(d)
        /\ outcome[c].error.status = 0

\* What belongs to one call.
OfCall(c) ==
    <<pc[c], cfg[c], sent[c], timer[c], aborted[c], response[c], val[c],
      err[c], outcome[c], log[c]>>

\* C15: a step that aborts the network operation of a call is the firing
\* of that call's own armed timeout, and it changes nothing that belongs to
\* another call: the others stay in flight and settle on their own.
C15_CancellationPerCall ==
    [][\A c \in Calls :
          (aborted'[c] /\ ~aborted[c])
              => /\ timer[c] = "armed" /\ timer'[c] = "fired"
                 /\ \A d \in Calls \ {c} : OfCall(d)' = OfCall(d)]_vars

\* One call has timed out; another, in flight at that moment, has resolved
\* with the value of its own response afterwards, never aborted.
C15_Witness ==
    \E c, d \in Calls :
        /\ c # d
        /\ Settled(c) /\ TimedOut(c)
        /\ Settled(d) /\ outcome[d].kind = "resolved"
        /\ ~aborted[d] /\ timer[d] = "cleared"

----------------------------------------------------------------------------
(* Claims about the headers and the body of the request *)

\* apiClient as the module leaves it: one request interceptor, its own.
DefaultRequestChain == requestInterceptors = <<"auth">>

Issued(c) == Len(sent[c]) = 1
MergedHeaders(c) == Spread(DefaultHeaders, args[c].headers)

\* C16: on the default client the request carries Authorization: Bearer
\* <token> exactly when a value is stored under auth_token as the request
\* interceptor runs; with no value stored it carries the merged default and
\* caller headers and nothing else.
C16_BearerWhenValueStored ==
    \A c \in Calls :
        (DefaultRequestChain /\ Issued(c)) =>
            LET token == reqTrace[c][1].token
                headers == sent[c][1].headers
            IN IF token # Absent
               THEN headers["Authorization"] = "Bearer " \o token
               ELSE headers = MergedHeaders(c)

\* C16, amended: the header is added exactly when the value stored under
\* auth_token is not the empty string; with nothing stored, or the empty
\* string, the request carries the merged default and caller headers.
C16_BearerWhenTokenNotEmpty ==
    \A c \in Calls :
        (DefaultRequestChain /\ Issued(c)) =>
            LET token == reqTrace[c][1].token
                headers == sent[c][1].headers
            IN IF token # Absent /\ token # ""
               THEN /\ headers["Authorization"] = "Bearer " \o token
                    /\ headers["Content-Type"] = MergedHeaders(c)["Content-Type"]
               ELSE headers = MergedHeaders(c)

\* A request went out with the bearer header in place of the caller's own
\* Authorization header.
C16_Witness ==
    \E c \in Calls :
        /\ DefaultRequestChain /\ Issued(c)
        /\ reqTrace[c][1].token = "tok"
        /\ args[c].headers["Authorization"] = "Basic abc"
        /\ sent[c][1].headers["Authorization"] = "Bearer tok"

\* C17: the headers the first request interceptor is handed hold, for every
\* key the caller supplied, the caller's value, and for every other key the
\* client's default.
C17_CallerHeadersWin ==
    \A c \in Calls :
        Len(reqTrace[c]) >= 1 =>
            \A h \in HeaderKeys :
                reqTrace[c][1].in.headers[h] =
                    IF args[c].headers[h] # Absent
                    THEN args[c].headers[h]
                    ELSE DefaultHeaders[h]

\* The first interceptor of a call was handed the caller's Content-Type in
\* place of the default one.
C17_Witness ==
    \E c \in Calls :
        /\ Len(reqTrace[c]) >= 1
        /\ args[c].headers["Content-Type"] = "text/plain"
        /\ reqTrace[c][1].in.headers["Content-Type"] = "text/plain"

----------------------------------------------------------------------------
(* Claims about the error made from a non-2xx response *)

\* What the body of the response of call c decoded to, or the empty
\* object when it could not be decoded.
ErrorData(c) ==
    IF response[c].body.decodes THEN response[c].body.v ELSE JEmptyObject

\* C18: the error of a call answered with a non-2xx status has the
\* message, code and details of the decoded body where the body has them,
\* the generic message and HTTP_ERROR where it has not or could not be
\* decoded, and never status 0.
C18_ErrorFromBodyOrGeneric ==
    \A c \in Calls :
        (Settled(c) /\ HttpFailed(c)) =>
            LET d == ErrorData(c)
                e == outcome[c].error
            IN /\ outcome[c].kind = "rejected"
               /\ e.status # 0
               /\ e.message = IF d.message # Absent THEN d.message
                              ELSE "HTTP <status>: <statusText>"
               /\ e.code = IF d.code # Absent THEN d.code ELSE "HTTP_ERROR"
               /\ e.details = d.details

----------------------------------------------------------------------------
(* Claims about the body of post, put and patch *)

\* C19: the request of a post, put or patch carries the JSON serialization
\* of the payload whenever the caller passed one, 0, false and '' included,
\* and no body only when the caller passed none.
C19_PayloadSerialized ==
    \A c \in Calls :
        (Issued(c) /\ args[c].method \in {"POST", "PUT", "PATCH"}) =>
            sent[c][1].body = IF payload[c] # Absent
                              THEN JSONStringify(payload[c])
                              ELSE Absent

----------------------------------------------------------------------------
(* Claims about paths that begin with the letters http *)

EndsWith(s, suffix) ==
    /\ Len(s) >= Len(suffix)
    /\ SubSeq(s, Len(s) - Len(suffix) + 1, Len(s)) = suffix

\* C22: a path that does not name a scheme and a host, a relative path
\* beginning with the letters http included, is resolved to the effective
\* base URL followed by the path; only a path naming a scheme and a host is
\* the resolved URL as it stands.
C22_OnlyFullUrlsVerbatim ==
    (Resolved /\ ~IsAbsoluteUrl(urlArgs.url))
        => /\ StartsWith(fullUrl, TrimTrailingSlashes(EffectiveBase))
           /\ EndsWith(fullUrl, <<"/">> \o TrimLeadingSlashes(urlArgs.url))

----------------------------------------------------------------------------
(* Claims about the effective timeout *)

\* C21: the timeout guard of a call is armed at the timeout the caller
\* passed, whatever number that is, and at the client's default timeout
\* only when the caller passed none.
C21_ArmedAtOverride ==
    \A c \in Calls :
        timer[c] # "none" =>
            armedAt[c] = IF args[c].timeout # NoTimeout
                         THEN args[c].timeout[1]
                         ELSE ClientTimeout

----------------------------------------------------------------------------
(* Claims about termination *)

\* C23: every call that was made settles in the end, also when the server
\* never answers and when the headers of the response arrive but its body
\* never does.
C23_EveryCallSettles ==
    \A c \in Calls : (pc[c] # "idle") ~> Settled(c)

----------------------------------------------------------------------------
(* Claims about useApi *)

InFlight(e) == exec[e].pc = "awaiting"
Done(e) == exec[e].pc = "done"

\* C24: while the component is mounted, and reset was not called,
\* isLoading is true exactly in the states in which an execute call is in
\* flight.
C24_LoadingWhileInFlight ==
    (hook.mounted /\ ~hook.wasReset)
        => (hook.isLoading <=> \E e \in Execs : InFlight(e))

\* C25: when all the execute calls made have settled, on a mounted
\* component that was not reset, data and error are those of the call made
\* last: its result and no error, or the message of its error.
C25_LastStartedWins ==
    (/\ Len(hook.started) = NExec
     /\ \A e \in Execs : Done(e)
     /\ hook.mounted /\ ~hook.wasReset)
        => LET last == hook.started[Len(hook.started)]
           IN IF exec[last].api = "resolved"
              THEN hook.data = ResultOf(last) /\ hook.error = Null
              ELSE hook.error = MessageOf(last)

\* C26: an execute call that settles after the unmount leaves the state and
\* the callback counts of the hook as they are, and returns the result when
\* apiCall resolved and null when it rejected.
C26_NothingAfterUnmount ==
    [][\A e \in Execs :
          (~hook.mounted /\ InFlight(e) /\ exec'[e].pc = "done")
              => /\ hook' = hook
                 /\ exec'[e].ret = IF exec'[e].api = "resolved"
                                   THEN "result" ELSE "null"]_vars

\* With callbacks given, one call resolved and one rejected after the
\* unmount: neither callback was called and the state is as it was.
C26_Witness ==
    \E e, d \in Execs :
        /\ hook.onSuccess # "none" /\ hook.onError # "none"
        /\ Done(e) /\ ~exec[e].mounted /\ exec[e].ret = "result"
        /\ Done(d) /\ ~exec[d].mounted /\ exec[d].ret = "null"
        /\ hook.onSuccessCalls = 0 /\ hook.onErrorCalls = 0
        /\ hook.isLoading /\ hook.data = Null

\* C27: the promise of execute never rejects; it resolves to the result
\* exactly when apiCall resolved, to null exactly when apiCall rejected, and
\* error is set only when an apiCall rejected.
C27_ExecuteNeverRejects ==
    /\ \A e \in Execs :
          Done(e) => exec[e].ret = IF exec[e].api = "resolved"
                                   THEN "result" ELSE "null"
    /\ hook.error # Null => \E e \in Execs : exec[e].api = "rejected"

----------------------------------------------------------------------------
(* Claims about usePaginatedApi *)

Requests == pager.requests
ByTheHook(r) == r.via \in {"effect", "immediate"}

\* C28: with immediate other than false, as long as the component calls
\* none of loadPage, nextPage, prevPage and refresh, the mounted hook has
\* issued one request, for initialPage with the page size.
C28_OneRequestOnMount ==
    (/\ pager.rendered
     /\ pager.immediate # "false"
     /\ \A i \in 1..Len(Requests) : ByTheHook(Requests[i]))
        => /\ Len(Requests) = 1
           /\ Requests[1].page = InitialPage
           /\ Requests[1].limit = DefaultPageSize

\* C29: when the server answers with { data, pagination } itself, after
\* a page has loaded the hook's data is the list of items and its
\* pagination the pagination of the response.
C29_PageStored ==
    (pager.rendered /\ ~pager.wraps /\ pager.lastOk # NoPagination)
        => /\ pager.state.data = "items"
           /\ pager.state.pagination # NoPagination
           /\ pager.state.pagination = pager.lastOk

\* C30: a page asked for through nextPage or prevPage, when the pagination
\* the hook held was that of the last successful response, lies within
\* 1..totalPages of that response.
C30_PageWithinBounds ==
    \A i \in 1..Len(Requests) :
        LET r == Requests[i]
        IN (/\ r.via \in {"nextPage", "prevPage"}
            /\ r.seen = r.last)
               => r.page >= 1 /\ r.page <= r.last.totalPages

====
